---- MODULE Spec2Model ----
(***************************************************************************)
(* LaunchStack backend: the periodic resource-usage collector              *)
(* (src/write_stats_collector.py, package container, Go).                  *)
(*                                                                         *)
(* One goroutine runs StatsCollector.run: it creates a ticker, prunes old  *)
(* stats once, and then selects between the ticker's channel and stopChan. *)
(* The environment fires the ticker, calls Stop(), answers the registry    *)
(* query and answers each stats fetch.                                     *)
(***************************************************************************)
EXTENDS Integers, Sequences, FiniteSets, TLC

\* ------------------------------------------------------------------ bounds
\* Instance identifiers the registry may return are 1..MaxId.
MaxId == 2
\* The registry returns at most MaxInstances instances per query.
MaxInstances == 2
\* The ticker delivers at most MaxTicks ticks in a run of the model.
MaxTicks == 2
\* The DNS server's rewrite list holds at most MaxRecords records at the start.
MaxRecords == 3

\* ------------------------------------------------------- program constants
\* NewStatsCollector: maxPerInstance: 100
maxPerInstance == 100
\* collectStats: context.WithTimeout(context.Background(), 5*time.Second)
TimeoutSeconds == 5

VARIABLES
    pc,          \* where the collector is: "new", "spawned", "cleanup", "select",
                 \* "query", "loop", "fetch", "done"
    stopChan,    \* "open" or "closed"
    tickerOn,    \* the ticker of run() exists and has not been stopped
    tickC,       \* number of ticks buffered in ticker.C (its capacity is 1)
    ticks,       \* number of collectStats calls begun
    instances,   \* collectStats: the list db.GetRunningInstances returned
    idx,         \* collectStats: position of the range loop in instances
    ctx,         \* collectStats: the context of the current iteration
    calls,       \* GetInstanceStats calls of the current tick, in order
    ret,         \* the latest collectStats call: "none", "running", "nil", "err"
    pruneCalls,  \* db.PruneResourceUsage calls: the sequence of their arguments
    pruneErr,    \* cleanupOldStats' result: "none", "nil", "err"
    usage,       \* storage: per instance, the retained samples, oldest first
    log,         \* the logger's output, as a set of entries
    stopCalls    \* number of calls of Stop() so far

\* The DNS cleanup script (src/cleanup_stale_dns_records.py): the arguments
\* and locals of cleanup_stale_dns_records, the DNS server and the requests.
VARIABLES
    dpc,                    \* where cleanup_stale_dns_records is
    dry_run,                \* argument
    force_cleanup,          \* argument
    test_mode,              \* argument
    docker_ok,              \* whether "docker ps" succeeded
    active_containers,      \* the names of the active containers
    server,                 \* the DNS server's rewrite list
    server0,                \* the DNS server's rewrite list before the run
    dns_records,            \* the listing, then the deduplicated listing
    container_dns_records,
    other_dns_records,
    stale_records,
    active_records,
    pos,                    \* position of the current for loop
    remaining_stale,        \* the count made from the verification listing
    requests,               \* the requests sent to the DNS server, in order
    result                  \* the return value: "none", "True", "False"

cvars == <<pc, stopChan, tickerOn, tickC, ticks, instances, idx, ctx, calls,
           ret, pruneCalls, pruneErr, usage, log>>

dvars == <<dpc, dry_run, force_cleanup, test_mode, docker_ok, active_containers,
           server, server0, dns_records, container_dns_records,
           other_dns_records, stale_records, active_records, pos,
           remaining_stale, requests, result>>

vars == <<cvars, stopCalls, dvars>>

\* ------------------------------------------------------------- data types
\* The registry's example of three instances, the second not yet provisioned.
Scenario ==
    <<[ID |-> 1, ContainerID |-> "c1"],
      [ID |-> 2, ContainerID |-> ""],
      [ID |-> 3, ContainerID |-> "c3"]>>

Ids == (1..MaxId) \cup {Scenario[k].ID : k \in DOMAIN Scenario}

ContainerName == [i \in Ids |-> <<"c1", "c2", "c3", "c4", "c5">>[i]]

\* db.Instance, as far as the collector reads it: ID and ContainerID.
Instance == {r \in [ID : 1..MaxId, ContainerID : {""} \cup {ContainerName[i] : i \in Ids}] :
                r.ContainerID \in {"", ContainerName[r.ID]}}

\* What db.GetRunningInstances may return: any list of distinct instances of
\* bounded length, and the example.
RegistryLists ==
    {s \in UNION {[1..n -> Instance] : n \in 0..MaxInstances} :
        \A j, k \in DOMAIN s : j # k => s[j].ID # s[k].ID}
    \cup {Scenario}

\* logrus entries: the message and the fields the collector sets.
Entry(level, msg, id, cid) ==
    [level |-> level, msg |-> msg, instance_id |-> id, container_id |-> cid]

\* No context: outside an iteration of collectStats' loop the variable ctx is
\* out of scope.
NoCtx == [timeout |-> 0, err |-> "unset"]

\* context.WithTimeout(context.Background(), 5*time.Second): a new context
\* whose deadline is 5 seconds ahead and which has no error yet.
WithTimeout == [timeout |-> TimeoutSeconds, err |-> "none"]

\* Samples are numbered in collection order; the next one follows the newest.
NextSample(s) == IF Len(s) = 0 THEN 1 ELSE s[Len(s)] + 1

\* db.PruneResourceUsage(n): retain the n most recent samples of an instance.
KeepLast(s, n) == IF Len(s) <= n THEN s ELSE SubSeq(s, Len(s) - n + 1, Len(s))

PruneResourceUsage(u, n) == [i \in DOMAIN u |-> KeepLast(u[i], n)]

\* Storage contents a collector may start on: every instance holds count
\* samples, numbered 1..count; the storage is empty, at the cap, or above
\* it (left so by an earlier run).
InitCounts == {0, maxPerInstance, maxPerInstance + 1}

InitUsage == {[i \in Ids |-> [k \in 1..n |-> k]] : n \in InitCounts}

\* ------------------------------------------------------------------ Init
\* The DNS cleanup script is not run.
DnsNotRun ==
    /\ dpc = "not run"
    /\ dry_run = FALSE
    /\ force_cleanup = FALSE
    /\ test_mode = FALSE
    /\ docker_ok = FALSE
    /\ active_containers = {}
    /\ server = << >>
    /\ server0 = << >>
    /\ dns_records = << >>
    /\ container_dns_records = << >>
    /\ other_dns_records = << >>
    /\ stale_records = << >>
    /\ active_records = << >>
    /\ pos = 0
    /\ remaining_stale = 0
    /\ requests = << >>
    /\ result = "none"

\* NewStatsCollector
Init ==
    /\ pc = "new"
    /\ stopChan = "open"
    /\ tickerOn = FALSE
    /\ tickC = 0
    /\ ticks = 0
    /\ instances = <<>>
    /\ idx = 0
    /\ ctx = NoCtx
    /\ calls = <<>>
    /\ ret = "none"
    /\ pruneCalls = <<>>
    /\ pruneErr = "none"
    /\ usage \in InitUsage
    /\ log = {}
    /\ stopCalls = 0
    /\ DnsNotRun

\* ---------------------------------------------------------------- actions
\* Start: go s.run()
Start ==
    /\ pc = "new"
    /\ pc' = "spawned"
    /\ UNCHANGED <<stopChan, tickerOn, tickC, ticks, instances, idx, ctx, calls,
                   ret, pruneCalls, pruneErr, usage, log,
                   stopCalls, dvars>>

\* A variant of Stop whose signal also cancels the context of the fetch in
\* flight (as if the context were derived from the stop signal).
StopCancelsFetch ==
    /\ stopChan = "open"
    /\ stopChan' = "closed"
    /\ stopCalls' = stopCalls + 1
    /\ ctx' = IF pc = "fetch" /\ ctx.err = "none"
              THEN [ctx EXCEPT !.err = "canceled"] ELSE ctx
    /\ UNCHANGED <<pc, tickerOn, tickC, ticks, instances, idx, calls,
                   ret, pruneCalls, pruneErr, usage, log,
                   dvars>>

\* Stop: close(s.stopChan)
Stop ==
    /\ stopChan = "open"
    /\ stopChan' = "closed"
    /\ stopCalls' = stopCalls + 1
    /\ UNCHANGED <<pc, tickerOn, tickC, ticks, instances, idx, ctx, calls,
                   ret, pruneCalls, pruneErr, usage, log,
                   dvars>>

\* A variant of StopAgain in which closing the closed channel does nothing.
StopAgainNoOp ==
    /\ stopChan = "closed"
    /\ stopCalls < 2
    /\ stopCalls' = stopCalls + 1
    /\ UNCHANGED <<pc, stopChan, tickerOn, tickC, ticks, instances, idx, ctx,
                   calls, ret, pruneCalls, pruneErr, usage, log, dvars>>

\* Stop, called when stopChan is closed already: close of a closed channel
\* panics, and the panic ends the program and with it the run goroutine.
StopAgain ==
    /\ stopChan = "closed"
    /\ pc # "panic"
    /\ stopCalls' = stopCalls + 1
    /\ pc' = "panic"
    /\ tickerOn' = FALSE
    /\ UNCHANGED <<stopChan, tickC, ticks, instances, idx, ctx,
                   calls, ret, pruneCalls, pruneErr, usage, log, dvars>>

\* The runtime's timer: a tick is sent to ticker.C unless one is buffered.
TimerFire ==
    /\ tickerOn
    /\ tickC = 0
    /\ ticks + tickC < MaxTicks
    /\ tickC' = 1
    /\ UNCHANGED <<pc, stopChan, tickerOn, ticks, instances, idx, ctx, calls,
                   ret, pruneCalls, pruneErr, usage, log,
                   stopCalls, dvars>>

\* run: ticker := time.NewTicker(s.collectionRate)
NewTicker ==
    /\ pc = "spawned"
    /\ pc' = "cleanup"
    /\ tickerOn' = TRUE
    /\ UNCHANGED <<stopChan, tickC, ticks, instances, idx, ctx, calls,
                   ret, pruneCalls, pruneErr, usage, log,
                   stopCalls, dvars>>

\* run: s.cleanupOldStats() returns nil
CleanupOk ==
    /\ pc = "cleanup"
    /\ pruneCalls' = Append(pruneCalls, maxPerInstance)
    /\ usage' = PruneResourceUsage(usage, maxPerInstance)
    /\ pruneErr' = "nil"
    /\ pc' = "select"
    /\ UNCHANGED <<stopChan, tickerOn, tickC, ticks, instances, idx, ctx, calls,
                   ret, log,
                   stopCalls, dvars>>

\* run: s.cleanupOldStats() returns an error, which is logged
CleanupFail ==
    /\ pc = "cleanup"
    /\ pruneCalls' = Append(pruneCalls, maxPerInstance)
    /\ pruneErr' = "err"
    /\ log' = log \cup {Entry("error", "Failed to clean up old stats", 0, "")}
    /\ pc' = "select"
    /\ UNCHANGED <<stopChan, tickerOn, tickC, ticks, instances, idx, ctx, calls,
                   ret, usage,
                   stopCalls, dvars>>

\* A variant of SelectTick that prunes on every tick, not only at startup.
SelectTickPruning ==
    /\ pc = "select"
    /\ tickC > 0
    /\ tickC' = tickC - 1
    /\ ticks' = ticks + 1
    /\ calls' = <<>>
    /\ ret' = "running"
    /\ pruneCalls' = Append(pruneCalls, maxPerInstance)
    /\ usage' = PruneResourceUsage(usage, maxPerInstance)
    /\ pc' = "query"
    /\ UNCHANGED <<stopChan, tickerOn, instances, idx, ctx, pruneErr, log,
                   stopCalls, dvars>>

\* A variant of SelectTick that starts collectStats for a buffered tick
\* without waiting for the collectStats in progress (as with go s.collectStats()).
SelectTickOverlapping ==
    /\ pc \in {"select", "query", "loop", "fetch"}
    /\ tickC > 0
    /\ tickC' = tickC - 1
    /\ ticks' = ticks + 1
    /\ calls' = <<>>
    /\ ret' = "running"
    /\ pc' = "query"
    /\ UNCHANGED <<stopChan, tickerOn, instances, idx, ctx, pruneCalls, pruneErr,
                   usage, log,
                   stopCalls, dvars>>

\* run: select chooses case <-ticker.C and calls collectStats
SelectTick ==
    /\ pc = "select"
    /\ tickC > 0
    /\ tickC' = tickC - 1
    /\ ticks' = ticks + 1
    /\ calls' = <<>>
    /\ ret' = "running"
    /\ pc' = "query"
    /\ UNCHANGED <<stopChan, tickerOn, instances, idx, ctx, pruneCalls, pruneErr,
                   usage, log,
                   stopCalls, dvars>>

\* run: select chooses case <-s.stopChan; the deferred ticker.Stop() runs
SelectStop ==
    /\ pc = "select"
    /\ stopChan = "closed"
    /\ log' = log \cup {Entry("info", "Stats collector stopped", 0, "")}
    /\ tickerOn' = FALSE
    /\ pc' = "done"
    /\ UNCHANGED <<stopChan, tickC, ticks, instances, idx, ctx, calls,
                   ret, pruneCalls, pruneErr, usage,
                   stopCalls, dvars>>

\* collectStats: db.GetRunningInstances() returns a list and no error
QueryOk(list) ==
    /\ pc = "query"
    /\ instances' = list
    /\ idx' = 1
    /\ log' = log \cup {Entry("debug", "Collecting stats for running instances", 0, "")}
    /\ pc' = "loop"
    /\ UNCHANGED <<stopChan, tickerOn, tickC, ticks, ctx, calls, ret,
                   pruneCalls, pruneErr, usage,
                   stopCalls, dvars>>

\* A variant of QueryFail that queries the registry again within the tick.
QueryFailRetries ==
    /\ pc = "query"
    /\ ret' = "err"
    /\ log' = log \cup {Entry("error", "Failed to collect stats", 0, "")}
    /\ pc' = "query"
    /\ UNCHANGED <<stopChan, tickerOn, tickC, ticks, instances, idx, ctx, calls,
                   pruneCalls, pruneErr, usage,
                   stopCalls, dvars>>

\* A variant of QueryFail in which run returns when collectStats fails.
QueryFailExits ==
    /\ pc = "query"
    /\ ret' = "err"
    /\ log' = log \cup {Entry("error", "Failed to collect stats", 0, "")}
    /\ tickerOn' = FALSE
    /\ pc' = "done"
    /\ UNCHANGED <<stopChan, tickC, ticks, instances, idx, ctx, calls,
                   pruneCalls, pruneErr, usage,
                   stopCalls, dvars>>

\* collectStats: db.GetRunningInstances() fails; collectStats returns the
\* error and run logs it
QueryFail ==
    /\ pc = "query"
    /\ ret' = "err"
    /\ log' = log \cup {Entry("error", "Failed to collect stats", 0, "")}
    /\ pc' = "select"
    /\ UNCHANGED <<stopChan, tickerOn, tickC, ticks, instances, idx, ctx, calls,
                   pruneCalls, pruneErr, usage,
                   stopCalls, dvars>>

\* A variant of NoContainer that skips no instance.
NoContainerNever(instance) == FALSE

\* collectStats: if instance.ContainerID == "" { continue }
NoContainer(instance) == instance.ContainerID = ""

LoopSkip ==
    /\ pc = "loop"
    /\ idx <= Len(instances)
    /\ NoContainer(instances[idx])
    /\ idx' = idx + 1
    /\ UNCHANGED <<pc, stopChan, tickerOn, tickC, ticks, instances, ctx, calls,
                   ret, pruneCalls, pruneErr, usage, log,
                   stopCalls, dvars>>

\* collectStats: ctx, cancel := context.WithTimeout(...), then the call
\* s.manager.GetInstanceStats(ctx, instance.ID) is issued
FetchStart ==
    /\ pc = "loop"
    /\ idx <= Len(instances)
    /\ ~NoContainer(instances[idx])
    /\ ctx' = WithTimeout
    /\ calls' = Append(calls, instances[idx].ID)
    /\ pc' = "fetch"
    /\ UNCHANGED <<stopChan, tickerOn, tickC, ticks, instances, idx, ret,
                   pruneCalls, pruneErr, usage, log,
                   stopCalls, dvars>>

\* The context's timer: its timeout has passed since the context was made,
\* while the fetch is still in flight; ctx.Err() becomes DeadlineExceeded.
DeadlineExceeded ==
    /\ pc = "fetch"
    /\ ctx.err = "none"
    /\ ctx' = [ctx EXCEPT !.err = "deadline"]
    /\ UNCHANGED <<pc, stopChan, tickerOn, tickC, ticks, instances, idx, calls,
                   ret, pruneCalls, pruneErr, usage, log,
                   stopCalls, dvars>>

\* manager.GetInstanceStats stores the sample it returns.
StoreSample(u, id) == [u EXCEPT ![id] = Append(@, NextSample(@))]

\* collectStats: GetInstanceStats returns stats and no error; cancel(), and
\* the iteration's ctx goes out of scope
FetchOk ==
    /\ pc = "fetch"
    /\ ctx.err = "none"
    /\ usage' = StoreSample(usage, instances[idx].ID)
    /\ ctx' = NoCtx
    /\ idx' = idx + 1
    /\ pc' = "loop"
    /\ UNCHANGED <<stopChan, tickerOn, tickC, ticks, instances, calls, ret,
                   pruneCalls, pruneErr, log,
                   stopCalls, dvars>>

\* A variant of FetchFail in which collectStats returns the fetch's error.
FetchFailReturns ==
    /\ pc = "fetch"
    /\ log' = log \cup {Entry("error", "Failed to collect stats for instance",
                              instances[idx].ID, instances[idx].ContainerID),
                        Entry("error", "Failed to collect stats", 0, "")}
    /\ ctx' = NoCtx
    /\ ret' = "err"
    /\ instances' = <<>>
    /\ idx' = 0
    /\ pc' = "select"
    /\ UNCHANGED <<stopChan, tickerOn, tickC, ticks, calls,
                   pruneCalls, pruneErr, usage,
                   stopCalls, dvars>>

\* A variant of FetchFail that fetches the same instance again.
FetchFailRetries ==
    /\ pc = "fetch"
    /\ log' = log \cup {Entry("error", "Failed to collect stats for instance",
                              instances[idx].ID, instances[idx].ContainerID)}
    /\ ctx' = NoCtx
    /\ pc' = "loop"
    /\ UNCHANGED <<stopChan, tickerOn, tickC, ticks, instances, idx, calls, ret,
                   pruneCalls, pruneErr, usage,
                   stopCalls, dvars>>

\* collectStats: GetInstanceStats returns an error (its own, or the context's
\* deadline); the error is logged with the instance's fields; cancel(), and
\* the iteration's ctx goes out of scope
FetchFail ==
    /\ pc = "fetch"
    /\ log' = log \cup {Entry("error", "Failed to collect stats for instance",
                              instances[idx].ID, instances[idx].ContainerID)}
    /\ ctx' = NoCtx
    /\ idx' = idx + 1
    /\ pc' = "loop"
    /\ UNCHANGED <<stopChan, tickerOn, tickC, ticks, instances, calls, ret,
                   pruneCalls, pruneErr, usage,
                   stopCalls, dvars>>

\* collectStats: the range loop is over; return nil (the locals instances
\* and the loop position go out of scope)
CollectReturn ==
    /\ pc = "loop"
    /\ idx > Len(instances)
    /\ ret' = "nil"
    /\ instances' = <<>>
    /\ idx' = 0
    /\ pc' = "select"
    /\ UNCHANGED <<stopChan, tickerOn, tickC, ticks, ctx, calls,
                   pruneCalls, pruneErr, usage, log,
                   stopCalls, dvars>>

Query == \E list \in RegistryLists : QueryOk(list)

Next ==
    \/ Start
    \/ Stop
    \/ TimerFire
    \/ NewTicker
    \/ CleanupOk
    \/ CleanupFail
    \/ SelectTick
    \/ SelectStop
    \/ Query
    \/ QueryFail
    \/ LoopSkip
    \/ FetchStart
    \/ DeadlineExceeded
    \/ FetchOk
    \/ FetchFail
    \/ CollectReturn

Spec == Init /\ [][Next]_vars

\* The goroutine keeps running once spawned, every registry query and every
\* stats fetch returns, and select's uniform pseudo-random choice among its
\* ready cases does not pass over a case that is ready again and again.
FairSpec ==
    /\ Spec
    /\ WF_vars(NewTicker \/ CleanupOk \/ CleanupFail)
    /\ WF_vars(Query \/ QueryFail)
    /\ WF_vars(LoopSkip \/ FetchStart \/ CollectReturn)
    /\ WF_vars(FetchOk \/ FetchFail)
    /\ WF_vars(SelectTick \/ SelectStop)
    /\ SF_vars(SelectStop)
    /\ SF_vars(SelectTick)

\* The collector whose callers may call Stop() again. The registry answers
\* with no instance or with the example list. The run goroutine keeps
\* running while it can take a step, every query and fetch returns, and
\* select does not pass over the stop case again and again.
ExampleQuery == \E list \in {<< >>, Scenario} : QueryOk(list)

RunStep ==
    \/ NewTicker
    \/ CleanupOk
    \/ CleanupFail
    \/ SelectTick
    \/ SelectStop
    \/ ExampleQuery
    \/ QueryFail
    \/ LoopSkip
    \/ FetchStart
    \/ FetchOk
    \/ FetchFail
    \/ CollectReturn

StopTwiceNext ==
    \/ Start
    \/ Stop
    \/ StopAgain
    \/ TimerFire
    \/ DeadlineExceeded
    \/ RunStep

StopTwiceSpec ==
    /\ Init
    /\ [][StopTwiceNext]_vars
    /\ WF_vars(RunStep)
    /\ SF_vars(SelectStop)

\* ---------------------------------------------- the DNS cleanup script
\* Strings are sequences of pieces that are never split: ".docker" is one
\* piece, so "a.docker" is <<"a", ".docker">> and "" is << >>.

\* str.endswith(".docker")
EndsWithDocker(domain) == Len(domain) > 0 /\ domain[Len(domain)] = ".docker"

\* str.replace(".docker", ""): every occurrence is removed.
RemoveDocker(domain) == SelectSeq(domain, LAMBDA piece : piece # ".docker")

\* is_container_dns_record: excluded = ["test.docker", "test-record.docker"]
Excluded == {<<"test", ".docker">>, <<"test-record", ".docker">>}

is_container_dns_record(domain) ==
    IF ~EndsWithDocker(domain) THEN FALSE
    ELSE IF domain \in Excluded THEN FALSE
    ELSE TRUE

\* get_test_active_containers
TestContainers == {<<"blue-wolf">>, <<"pearl-puppy">>, <<"jolly-willow">>}

\* The names "docker ps" may print: a, b and a.docker.
ContainerNames == {<<"a">>, <<"b">>, <<"a", ".docker">>}

\* The records the DNS server may hold: two answers for a.docker, one for
\* b.docker, a.docker.docker, the excluded test.docker, a.com, and a record
\* without domain.
ServerRecords ==
    {[domain |-> <<"a", ".docker">>, answer |-> "10.0.0.1"],
     [domain |-> <<"a", ".docker">>, answer |-> "10.0.0.2"],
     [domain |-> <<"b", ".docker">>, answer |-> "10.0.0.1"],
     [domain |-> <<"a", ".docker", ".docker">>, answer |-> "10.0.0.1"],
     [domain |-> <<"test", ".docker">>, answer |-> "10.0.0.1"],
     [domain |-> <<"a", ".com">>, answer |-> "10.0.0.1"],
     [domain |-> << >>, answer |-> "10.0.0.1"]}

ServerLists == UNION {[1..n -> ServerRecords] : n \in 0..MaxRecords}

\* deduplicate_records, one record: unique_records[domain] = record when the
\* domain is not empty (a dict keeps a key's first position, its last value).
PutRecord(unique, record) ==
    IF record.domain = << >> THEN unique
    ELSE IF \E j \in DOMAIN unique : unique[j].domain = record.domain
    THEN [j \in DOMAIN unique |->
            IF unique[j].domain = record.domain THEN record ELSE unique[j]]
    ELSE Append(unique, record)

RECURSIVE DedupFirst(_, _)
DedupFirst(records, n) ==
    IF n = 0 THEN << >> ELSE PutRecord(DedupFirst(records, n - 1), records[n])

\* AdGuardDNSManager.deduplicate_records
deduplicate_records(records) == DedupFirst(records, Len(records))

\* cleanup_stale_dns_records: the container records and the other records
ContainerRecords(records) ==
    SelectSeq(records, LAMBDA record : is_container_dns_record(record.domain))

OtherRecords(records) ==
    SelectSeq(records, LAMBDA record : ~is_container_dns_record(record.domain))

\* cleanup_stale_dns_records: container_name in active_containers
IsActive(record, active) == RemoveDocker(record.domain) \in active

ActiveRecords(records, active) ==
    SelectSeq(records, LAMBDA record : IsActive(record, active))

StaleRecords(records, active) ==
    SelectSeq(records, LAMBDA record : ~IsActive(record, active))

\* cleanup_stale_dns_records: the count of remaining stale records
RemainingStale(records, active) ==
    Cardinality({k \in DOMAIN records :
        /\ is_container_dns_record(records[k].domain)
        /\ RemoveDocker(records[k].domain) \notin active})

\* The DNS server, control/rewrite/delete with a domain: the rewrites of
\* that domain are removed.
ServerDelete(list, domain) == SelectSeq(list, LAMBDA record : record.domain # domain)

\* The DNS server, control/rewrite/add: the rewrite is added.
ServerAdd(list, domain, answer) == Append(list, [domain |-> domain, answer |-> answer])

\* A request sent by _make_request and whether it succeeded.
Request(op, domain, answer, ok) ==
    [op |-> op, domain |-> domain, answer |-> answer, ok |-> ok]

\* The collector is not constructed.
CollectorNotRun ==
    /\ pc = "not run"
    /\ stopChan = "open"
    /\ tickerOn = FALSE
    /\ tickC = 0
    /\ ticks = 0
    /\ instances = << >>
    /\ idx = 0
    /\ ctx = NoCtx
    /\ calls = << >>
    /\ ret = "none"
    /\ pruneCalls = << >>
    /\ pruneErr = "none"
    /\ usage = [i \in Ids |-> << >>]
    /\ log = {}
    /\ stopCalls = 0

\* main: cleanup_stale_dns_records is called with its three arguments, the
\* DNS server holding any list of records.
DnsInit ==
    /\ CollectorNotRun
    /\ dpc = "containers"
    /\ dry_run \in BOOLEAN
    /\ force_cleanup \in BOOLEAN
    /\ test_mode \in BOOLEAN
    /\ docker_ok = FALSE
    /\ active_containers = {}
    /\ server \in ServerLists
    /\ server0 = server
    /\ dns_records = << >>
    /\ container_dns_records = << >>
    /\ other_dns_records = << >>
    /\ stale_records = << >>
    /\ active_records = << >>
    /\ pos = 0
    /\ remaining_stale = 0
    /\ requests = << >>
    /\ result = "none"

\* cleanup_stale_dns_records: test_mode, get_test_active_containers
UseTestContainers ==
    /\ dpc = "containers"
    /\ test_mode
    /\ active_containers' = TestContainers
    /\ dpc' = "list"
    /\ UNCHANGED <<dry_run, force_cleanup, test_mode, docker_ok, server, server0,
                   dns_records, container_dns_records, other_dns_records,
                   stale_records, active_records, pos, remaining_stale,
                   requests, result, cvars, stopCalls>>

\* get_active_containers: "docker ps" prints names
DockerPsOk(names) ==
    /\ dpc = "containers"
    /\ ~test_mode
    /\ docker_ok' = TRUE
    /\ active_containers' = names
    /\ dpc' = "list"
    /\ UNCHANGED <<dry_run, force_cleanup, test_mode, server, server0,
                   dns_records, container_dns_records, other_dns_records,
                   stale_records, active_records, pos, remaining_stale,
                   requests, result, cvars, stopCalls>>

DockerPs == \E names \in SUBSET ContainerNames : DockerPsOk(names)

\* A failure of "docker ps" that ends the run with False.
DockerPsFailStops ==
    /\ dpc = "containers"
    /\ ~test_mode
    /\ docker_ok' = FALSE
    /\ active_containers' = {}
    /\ result' = "False"
    /\ dpc' = "done"
    /\ UNCHANGED <<dry_run, force_cleanup, test_mode, server, server0,
                   dns_records, container_dns_records, other_dns_records,
                   stale_records, active_records, pos, remaining_stale,
                   requests, cvars, stopCalls>>

\* get_active_containers: docker is missing or fails; the result is []
DockerPsFail ==
    /\ dpc = "containers"
    /\ ~test_mode
    /\ docker_ok' = FALSE
    /\ active_containers' = {}
    /\ dpc' = "list"
    /\ UNCHANGED <<dry_run, force_cleanup, test_mode, server, server0,
                   dns_records, container_dns_records, other_dns_records,
                   stale_records, active_records, pos, remaining_stale,
                   requests, result, cvars, stopCalls>>

\* A failed listing taken for an empty list: the run returns True.
ListFailAsEmpty ==
    /\ dpc = "list"
    /\ requests' = Append(requests, Request("list", << >>, "", FALSE))
    /\ result' = "True"
    /\ dpc' = "done"
    /\ UNCHANGED <<dry_run, force_cleanup, test_mode, docker_ok,
                   active_containers, server, server0, dns_records,
                   container_dns_records, other_dns_records, stale_records,
                   active_records, pos, remaining_stale, cvars, stopCalls>>

\* cleanup_stale_dns_records: get_dns_records fails; return False
ListFail ==
    /\ dpc = "list"
    /\ requests' = Append(requests, Request("list", << >>, "", FALSE))
    /\ result' = "False"
    /\ dpc' = "done"
    /\ UNCHANGED <<dry_run, force_cleanup, test_mode, docker_ok,
                   active_containers, server, server0, dns_records,
                   container_dns_records, other_dns_records, stale_records,
                   active_records, pos, remaining_stale, cvars, stopCalls>>

\* A classification that goes to the deletes on a dry run too.
AfterClassifyIgnoringDryRun(dry, stale) ==
    IF stale # << >> THEN "delete" ELSE "done"

\* cleanup_stale_dns_records after the classification: return True on a dry
\* run or without stale records, else go to the deletes.
AfterClassify(dry, stale) ==
    IF dry THEN "done" ELSE IF stale # << >> THEN "delete" ELSE "done"

\* cleanup_stale_dns_records: get_dns_records succeeds; the records are
\* deduplicated and classified
ListOk ==
    /\ dpc = "list"
    /\ requests' = Append(requests, Request("list", << >>, "", TRUE))
    /\ dns_records' = deduplicate_records(server)
    /\ container_dns_records' = ContainerRecords(dns_records')
    /\ other_dns_records' = OtherRecords(dns_records')
    /\ stale_records' = StaleRecords(container_dns_records', active_containers)
    /\ active_records' = ActiveRecords(container_dns_records', active_containers)
    /\ dpc' = AfterClassify(dry_run, stale_records')
    /\ pos' = IF dpc' = "delete" THEN 1 ELSE 0
    /\ result' = IF dpc' = "done" THEN "True" ELSE "none"
    /\ UNCHANGED <<dry_run, force_cleanup, test_mode, docker_ok,
                   active_containers, server, server0, remaining_stale,
                   cvars, stopCalls>>

\* A delete loop that passes every container record in both modes.
DeleteListAll(force, containers, stale) == containers

\* cleanup_stale_dns_records: the records the delete loop passes
DeleteList(force, containers, stale) == IF force THEN containers ELSE stale

\* cleanup_stale_dns_records: what follows the delete loop
AfterDeletes(force, active) ==
    IF force /\ active # << >> THEN "add" ELSE "verify"

\* A delete loop that gives up with False at the first failed delete.
DeleteStopsOnFailure(ok) ==
    LET list == DeleteList(force_cleanup, container_dns_records, stale_records)
        domain == list[pos].domain
    IN  /\ dpc = "delete"
        /\ requests' = Append(requests, Request("delete", domain, "", ok))
        /\ server' = IF ok THEN ServerDelete(server, domain) ELSE server
        /\ dpc' = IF ~ok THEN "done"
                  ELSE IF pos < Len(list) THEN "delete"
                  ELSE AfterDeletes(force_cleanup, active_records)
        /\ pos' = IF pos < Len(list) THEN pos + 1 ELSE 1
        /\ result' = IF ok THEN result ELSE "False"
        /\ UNCHANGED <<dry_run, force_cleanup, test_mode, docker_ok,
                       active_containers, server0, dns_records,
                       container_dns_records, other_dns_records, stale_records,
                       active_records, remaining_stale, cvars, stopCalls>>

\* One iteration of the delete loop: delete_dns_record(domain), which
\* succeeds (ok) or fails; its result is not looked at.
Delete(ok) ==
    LET list == DeleteList(force_cleanup, container_dns_records, stale_records)
        domain == list[pos].domain
    IN  /\ dpc = "delete"
        /\ requests' = Append(requests, Request("delete", domain, "", ok))
        /\ server' = IF ok THEN ServerDelete(server, domain) ELSE server
        /\ dpc' = IF pos < Len(list) THEN "delete"
                  ELSE AfterDeletes(force_cleanup, active_records)
        /\ pos' = IF pos < Len(list) THEN pos + 1 ELSE 1
        /\ UNCHANGED <<dry_run, force_cleanup, test_mode, docker_ok,
                       active_containers, server0, dns_records,
                       container_dns_records, other_dns_records, stale_records,
                       active_records, remaining_stale, result, cvars, stopCalls>>

DeleteOk == Delete(TRUE)

DeleteFail == Delete(FALSE)

\* One iteration of the loop that recreates the active records:
\* add_dns_record(domain, answer), which succeeds (ok) or fails.
Add(ok) ==
    LET record == active_records[pos]
    IN  /\ dpc = "add"
        /\ requests' = Append(requests, Request("add", record.domain, record.answer, ok))
        /\ server' = IF ok THEN ServerAdd(server, record.domain, record.answer)
                     ELSE server
        /\ dpc' = IF pos < Len(active_records) THEN "add" ELSE "verify"
        /\ pos' = IF pos < Len(active_records) THEN pos + 1 ELSE 1
        /\ UNCHANGED <<dry_run, force_cleanup, test_mode, docker_ok,
                       active_containers, server0, dns_records,
                       container_dns_records, other_dns_records, stale_records,
                       active_records, remaining_stale, result, cvars, stopCalls>>

AddOk == Add(TRUE)

AddFail == Add(FALSE)

\* cleanup_stale_dns_records: the verification listing fails; return False
VerifyFail ==
    /\ dpc = "verify"
    /\ requests' = Append(requests, Request("list", << >>, "", FALSE))
    /\ result' = "False"
    /\ dpc' = "done"
    /\ UNCHANGED <<dry_run, force_cleanup, test_mode, docker_ok,
                   active_containers, server, server0, dns_records,
                   container_dns_records, other_dns_records, stale_records,
                   active_records, pos, remaining_stale, cvars, stopCalls>>

\* cleanup_stale_dns_records: the verification listing succeeds; the
\* remaining stale records are counted and reported; return True
VerifyOk ==
    /\ dpc = "verify"
    /\ requests' = Append(requests, Request("list", << >>, "", TRUE))
    /\ remaining_stale' = RemainingStale(server, active_containers)
    /\ result' = "True"
    /\ dpc' = "done"
    /\ UNCHANGED <<dry_run, force_cleanup, test_mode, docker_ok,
                   active_containers, server, server0, dns_records,
                   container_dns_records, other_dns_records, stale_records,
                   active_records, pos, cvars, stopCalls>>

DnsNext ==
    \/ UseTestContainers
    \/ DockerPs
    \/ DockerPsFail
    \/ ListFail
    \/ ListOk
    \/ DeleteOk
    \/ DeleteFail
    \/ AddOk
    \/ AddFail
    \/ VerifyFail
    \/ VerifyOk

DnsSpec == DnsInit /\ [][DnsNext]_vars

\* ------------------------------------------------------------- properties
Range(s) == {s[k] : k \in DOMAIN s}

ErrCleanup == Entry("error", "Failed to clean up old stats", 0, "")
ErrCollect == Entry("error", "Failed to collect stats", 0, "")
ErrFetch(id, cid) == Entry("error", "Failed to collect stats for instance", id, cid)
InfoStopped == Entry("info", "Stats collector stopped", 0, "")

\* C1: once Stop() has closed stopChan, the run loop begins no further
\* collectStats tick (the number of ticks begun does not change any more).
C1_NoTickAfterStop == [][stopChan = "closed" => ticks' = ticks]_vars

\* C2: once the startup pruning has succeeded, every instance retains at most
\* maxPerInstance samples in every state of the running collector.
C2_RetentionCap ==
    pruneErr = "nil" => \A i \in Ids : Len(usage[i]) <= maxPerInstance

\* C3: db.PruneResourceUsage is called with maxPerInstance exactly once, at
\* startup and before the first tick; no tick begins, and the loop does not
\* wait, before that call; when the call fails the failure is logged and the
\* loop has gone on to its wait point.
C3_PruneOnceAtStartup ==
    /\ Len(pruneCalls) <= 1
    /\ \A k \in DOMAIN pruneCalls : pruneCalls[k] = maxPerInstance
    /\ pc \in {"new", "spawned", "cleanup"} => pruneCalls = <<>> /\ ticks = 0
    /\ pc \in {"select", "query", "loop", "fetch", "done"} => Len(pruneCalls) = 1
    /\ ticks > 0 => Len(pruneCalls) = 1
    /\ pruneErr = "err" =>
          /\ ErrCleanup \in log
          /\ pc \in {"select", "query", "loop", "fetch", "done"}
    /\ ErrCleanup \in log => pruneErr = "err"

\* C3 witness: a tick is fetching stats after the startup pruning failed.
C3_Witness ==
    /\ pruneErr = "err"
    /\ Len(pruneCalls) = 1
    /\ ticks = 2
    /\ pc = "fetch"

\* C4: a tick whose registry query failed has issued no GetInstanceStats
\* call and has ended: the error is logged, nothing else changes, the loop is
\* back at its wait point (or has since stopped), and every tick, also the
\* one after a failure, begins with the registry query.
C4_QueryFailureSkipsTick ==
    /\ [](ret = "err" =>
            /\ calls = <<>>
            /\ pc \in {"select", "done"}
            /\ ErrCollect \in log)
    /\ [][(ret' = "err" /\ ret # "err") =>
            /\ pc = "query" /\ pc' = "select"
            /\ log' = log \cup {ErrCollect}
            /\ usage' = usage /\ calls' = << >> /\ tickC' = tickC]_vars
    /\ [][ticks' # ticks => pc' = "query" /\ calls' = << >>]_vars

\* C4 witness: the first tick's registry query failed and the second tick is
\* querying the registry.
C4_Witness ==
    /\ ticks = 2
    /\ pc = "query"
    /\ ErrCollect \in log

\* C5: whatever way a fetch ends, the loop goes on with the next list entry
\* of the same tick; every entry already passed that has a container
\* identifier has had its fetch; each fetch starts on a new context with the
\* 5 second timeout and no error; collectStats returns an error only from the
\* registry query.
C5_FetchFailureIsolated ==
    /\ [][(pc = "fetch" /\ pc' # "fetch") =>
            /\ pc' = "loop"
            /\ idx' = idx + 1
            /\ instances' = instances
            /\ ret' = "running"]_vars
    /\ [][(pc # "fetch" /\ pc' = "fetch") =>
            ctx' = [timeout |-> TimeoutSeconds, err |-> "none"]]_vars
    /\ [](pc \in {"loop", "fetch"} =>
            \A k \in 1..(idx - 1) :
                (k <= Len(instances) /\ instances[k].ContainerID # "")
                    => instances[k].ID \in Range(calls))
    /\ [][(ret' = "err" /\ ret # "err") => pc = "query"]_vars
    /\ [](ret = "nil" => pc \in {"select", "done"})

\* C5 witness: in the first tick the fetch for the first instance failed and
\* the fetch for a later instance is in flight on a new context.
C5_Witness ==
    /\ ticks = 1
    /\ pc = "fetch"
    /\ Len(calls) = 2
    /\ ErrFetch(calls[1], ContainerName[calls[1]]) \in log
    /\ ctx = [timeout |-> TimeoutSeconds, err |-> "none"]

\* C6: within a tick no GetInstanceStats call is issued for an instance of
\* the registry's list whose container identifier is empty.
C6_NoFetchWithoutContainer ==
    \A k \in DOMAIN instances :
        instances[k].ContainerID = "" => instances[k].ID \notin Range(calls)

\* C6 witness: the loop has passed the whole list, which holds an instance
\* without container identifier, and has fetched for another instance.
C6_Witness ==
    /\ pc = "loop"
    /\ idx > Len(instances)
    /\ calls # << >>
    /\ \E k \in DOMAIN instances : instances[k].ContainerID = ""

RECURSIVE ExpectedCalls(_, _)
\* The identifiers of the first n entries of list that have a container
\* identifier, in the list's order.
ExpectedCalls(list, n) ==
    IF n = 0 THEN << >>
    ELSE IF list[n].ContainerID = "" THEN ExpectedCalls(list, n - 1)
    ELSE Append(ExpectedCalls(list, n - 1), list[n].ID)

\* C7: during a tick whose registry query succeeded the GetInstanceStats
\* calls issued so far are, in order and one each, the entries passed so far
\* that have a container identifier; when the loop is over they are those of
\* the whole list.
C7_CallsFollowRegistryOrder ==
    /\ pc = "loop" => calls = ExpectedCalls(instances, idx - 1)
    /\ pc = "fetch" => calls = ExpectedCalls(instances, idx)

\* C7 witness: the loop is over for the list [1:c1, 2:"", 3:c3], the fetch
\* for instance 1 failed, and the calls were for 1 and then 3.
C7_Witness ==
    /\ ticks = 1
    /\ pc = "loop"
    /\ instances = Scenario
    /\ idx = 4
    /\ calls = <<1, 3>>
    /\ ErrFetch(1, "c1") \in log

\* C8: the run loop terminates only from its wait point and only with
\* stopChan closed; every step that logs an error leaves the loop running, at
\* its wait point or inside the tick, with the ticker still on.
C8_OnlyStopTerminates ==
    /\ [](pc = "done" => stopChan = "closed" /\ InfoStopped \in log)
    /\ [][(pc' = "done" /\ pc # "done") =>
            pc = "select" /\ stopChan = "closed"]_vars
    /\ [][(\E e \in log' \ log : e.level = "error") =>
            pc' \in {"select", "loop"} /\ tickerOn']_vars

\* C8 witness: the loop has terminated after a pruning failure, a registry
\* failure and a fetch failure.
C8_Witness ==
    /\ pc = "done"
    /\ ErrCleanup \in log
    /\ ErrCollect \in log
    /\ \E i \in Ids : ErrFetch(i, ContainerName[i]) \in log

\* Once Stop() has been called on a started collector, the loop terminates.
EventuallyExits == (stopChan = "closed" /\ pc # "new") ~> (pc = "done")

\* C9: once Stop() has been called on a started collector the run loop
\* exits, and it does so at its next scheduling point: with stopChan closed
\* the loop leaves its wait point only to terminate.
C9_ExitAtNextSchedulingPoint ==
    /\ EventuallyExits
    /\ [][(stopChan = "closed" /\ pc = "select" /\ pc' # "select") =>
            pc' = "done"]_vars

\* Prefix(s, t): sequence s is an initial part of sequence t.
Prefix(s, t) == Len(s) <= Len(t) /\ \A k \in DOMAIN s : s[k] = t[k]

\* C10: Stop() changes nothing but stopChan, so the fetch in flight and its
\* context go on; a context in flight ends only by its deadline; the loop
\* terminates only from its wait point; a tick leaves for the wait point only
\* by collectStats returning; after startup stored samples are never removed.
C10_StopDoesNotInterruptTick ==
    /\ [][stopChan' # stopChan =>
            /\ pc' = pc /\ ctx' = ctx /\ idx' = idx /\ instances' = instances
            /\ calls' = calls /\ usage' = usage /\ ret' = ret]_vars
    /\ [][(pc = "fetch" /\ pc' = "fetch" /\ ctx' # ctx) =>
            ctx.err = "none" /\ ctx' = [ctx EXCEPT !.err = "deadline"]]_vars
    /\ [][(pc' = "done" /\ pc # "done") => pc = "select"]_vars
    /\ [][(pc \in {"query", "loop", "fetch"} /\ pc' \notin {"query", "loop", "fetch"}) =>
            /\ pc' = "select"
            /\ \/ pc = "query" /\ ret' = "err"
               \/ pc = "loop" /\ idx > Len(instances) /\ ret' = "nil"]_vars
    /\ [][pc # "cleanup" =>
            usage' = usage \/ \A i \in Ids : Prefix(usage[i], usage'[i])]_vars

\* C10 witness: stopChan is closed while the second fetch of a tick is in
\* flight, its context without error, and the first fetch's sample is stored
\* (one more than the pruned storage held).
C10_Witness ==
    /\ stopChan = "closed"
    /\ pc = "fetch"
    /\ ctx.err = "none"
    /\ ticks = 1
    /\ Len(calls) = 2
    /\ pruneErr = "nil"
    /\ Len(usage[calls[1]]) \in {1, maxPerInstance + 1}

\* C11: ticks do not overlap: a collectStats call is in progress exactly
\* while the loop is inside it, a tick begins only from the wait point when
\* the latest collectStats has returned, a fetch is issued only when none is
\* in flight, and a timer firing only buffers a tick in ticker.C.
C11_TicksDoNotOverlap ==
    /\ [](ret = "running" <=> pc \in {"query", "loop", "fetch"})
    /\ [](pc = "fetch" <=> ctx.err \in {"none", "deadline"})
    /\ [][ticks' # ticks =>
            /\ ticks' = ticks + 1
            /\ pc = "select" /\ ret # "running" /\ tickC > 0]_vars
    /\ [][(pc' = "fetch" /\ pc # "fetch") =>
            pc = "loop" /\ ctx.err = "unset" /\ Len(calls') = Len(calls) + 1]_vars
    /\ [][tickC' > tickC =>
            pc' = pc /\ ticks' = ticks /\ ret' = ret /\ calls' = calls]_vars

\* C11 witness: the ticker has fired while a fetch of the first tick is in
\* flight; the tick is buffered and the first tick goes on.
C11_Witness ==
    /\ ticks = 1
    /\ pc = "fetch"
    /\ tickC = 1
    /\ ret = "running"

\* C19: the first Stop() closes stopChan and does nothing else; a started run
\* loop then terminates unless Stop() is called again; stopChan never
\* reopens; a second Stop() does not return normally: it ends in the panic
\* state, and the panic state is reached in no other way.
C19_StopIsSingleFire ==
    /\ [](stopCalls >= 1 => stopChan = "closed")
    /\ [][(stopCalls = 0 /\ stopCalls' # 0) =>
            /\ stopCalls' = 1
            /\ stopChan = "open" /\ stopChan' = "closed"
            /\ pc' = pc]_vars
    /\ [][stopChan = "closed" => stopChan' = "closed"]_vars
    /\ [](stopCalls >= 2 <=> pc = "panic")
    /\ [](stopCalls <= 2)
    /\ (stopCalls = 1 /\ pc # "new") ~> (pc = "done" \/ stopCalls = 2)

\* C19 witness: the run loop observed the first Stop() and terminated, and a
\* second Stop() then panicked.
C19_Witness ==
    /\ stopCalls = 2
    /\ pc = "panic"
    /\ InfoStopped \in log


\* --------------------------------------------- the DNS cleanup script

\* A domain names a stale entry: it ends with ".docker", is not an excluded
\* name, and the domain without ".docker" is not an active container.
StaleDomain(domain, active) ==
    /\ Len(domain) > 0
    /\ domain[Len(domain)] = ".docker"
    /\ domain # <<"test", ".docker">>
    /\ domain # <<"test-record", ".docker">>
    /\ SelectSeq(domain, LAMBDA piece : piece # ".docker") \notin active

\* The records of a list that are not stale entries, in their order.
NotStale(list, active) ==
    SelectSeq(list, LAMBDA record : ~StaleDomain(record.domain, active))

\* The requests of one kind that were sent.
Sent(op) == {k \in DOMAIN requests : requests[k].op = op}

\* C12: in non-force mode a delete is sent only for a stale entry (a domain
\* ending with ".docker", not excluded, whose container name is not active)
\* and no add is sent, so the records of active containers and the
\* non-container records stay on the server as they were.
C12_NonForceDeletesOnlyStale ==
    ~force_cleanup =>
        /\ Sent("add") = {}
        /\ \A k \in Sent("delete") : StaleDomain(requests[k].domain, active_containers)
        /\ NotStale(server, active_containers) = NotStale(server0, active_containers)

C12_Witness ==
    /\ ~force_cleanup
    /\ result = "True"
    /\ \E k \in Sent("delete") : requests[k].ok
    /\ active_records # << >>
    /\ other_dns_records # << >>
    /\ Len(server) < Len(server0)

\* C13: with dry_run the only request is the initial listing: no delete and
\* no add is sent whatever force_cleanup, the active containers and the
\* records are, the server keeps its records, and the run returns True when
\* the listing succeeded.
C13_DryRunChangesNothing ==
    dry_run =>
        /\ Sent("delete") = {}
        /\ Sent("add") = {}
        /\ server = server0
        /\ Len(requests) <= 1
        /\ \A k \in DOMAIN requests :
              /\ requests[k].op = "list"
              /\ requests[k].ok => dpc = "done" /\ result = "True"

C13_Witness ==
    /\ dry_run
    /\ force_cleanup
    /\ docker_ok
    /\ stale_records # << >>
    /\ active_records # << >>
    /\ result = "True"

\* The requests of one kind, in the order they were sent.
SentSeq(op) == SelectSeq(requests, LAMBDA request : request.op = op)

\* The domains of a list of records or requests, in order.
DomainsOf(list) == [k \in DOMAIN list |-> list[k].domain]

\* The (domain, answer) pairs of a list of records or requests, in order.
PairsOf(list) ==
    [k \in DOMAIN list |-> [domain |-> list[k].domain, answer |-> list[k].answer]]

\* Every delete was sent before every add.
DeletesBeforeAdds == \A i \in Sent("delete") : \A j \in Sent("add") : i < j

\* A full cleanup was made: one delete for every container record, then one
\* add for each record of an active container and no other.
FullCleanup ==
    /\ DomainsOf(SentSeq("delete")) = DomainsOf(container_dns_records)
    /\ PairsOf(SentSeq("add")) = PairsOf(active_records)
    /\ DeletesBeforeAdds

\* C14: a run with force_cleanup and without dry_run whose listing succeeded
\* has made a full cleanup when it ends, whatever the active containers and
\* the records are.
C14_ForceAlwaysFullCleanup ==
    (/\ force_cleanup
     /\ ~dry_run
     /\ dpc = "done"
     /\ requests # << >>
     /\ requests[1].ok) => FullCleanup

\* With a stale record among the container records the full cleanup is made.
ForceFullCleanupWhenStale ==
    (/\ force_cleanup
     /\ ~dry_run
     /\ dpc = "done"
     /\ stale_records # << >>) => FullCleanup

\* The enumeration of the containers failed.
DockerFailed == ~test_mode /\ ~docker_ok /\ dpc # "containers"

\* The listed records whose domain ends with ".docker" and is not excluded.
DockerDomains == SelectSeq(dns_records, LAMBDA record : StaleDomain(record.domain, {}))

\* C15: when the enumeration of the containers fails the list of active
\* containers is empty and the run goes on to the listing; every non-excluded
\* ".docker" record is then stale and a run without dry_run sends a delete
\* for each of them and no add, as with no container running; the run
\* returns what its last listing decides.
C15_DockerFailureMeansNoContainers ==
    /\ [][(dpc = "containers" /\ dpc' # dpc /\ ~test_mode /\ ~docker_ok') =>
            /\ active_containers' = {}
            /\ dpc' = "list"
            /\ result' = "none"
            /\ requests' = requests]_vars
    /\ [](DockerFailed =>
            /\ active_containers = {}
            /\ active_records = << >>
            /\ stale_records = container_dns_records
            /\ stale_records = DockerDomains
            /\ Sent("add") = {}
            /\ (dpc = "done" /\ requests # << >>) =>
                  /\ result = IF requests[Len(requests)].ok THEN "True" ELSE "False"
                  /\ (~dry_run /\ requests[1].ok) =>
                        DomainsOf(SentSeq("delete")) = DomainsOf(DockerDomains))

C15_Witness ==
    /\ DockerFailed
    /\ ~dry_run
    /\ dpc = "done"
    /\ result = "True"
    /\ Len(SentSeq("delete")) >= 2
    /\ other_dns_records # << >>

\* A domain names a container record: it ends with ".docker" and is not an
\* excluded name.
DockerDomain(domain) == StaleDomain(domain, {})

\* The (domain, answer) pairs of the records of active containers in a list.
ActivePairs(list) ==
    {[domain |-> list[k].domain, answer |-> list[k].answer] : k \in
        {j \in DOMAIN list : /\ DockerDomain(list[j].domain)
                             /\ ~StaleDomain(list[j].domain, active_containers)}}

\* The records of a list that are not container records, in their order.
NonContainer(list) == SelectSeq(list, LAMBDA record : ~DockerDomain(record.domain))

\* The run is over and each of its requests succeeded.
AllSucceeded == dpc = "done" /\ \A k \in DOMAIN requests : requests[k].ok

\* The server holds the deduplicated records of the active containers and
\* the non-container records it held before.
ActiveRecreated ==
    /\ ActivePairs(server) = ActivePairs(dns_records)
    /\ NonContainer(server) = NonContainer(server0)

\* An active record whose delete succeeded and whose add failed is missing.
FailedAddIsMissing ==
    \A i \in Sent("delete") : \A j \in Sent("add") :
        (/\ requests[i].domain = requests[j].domain
         /\ requests[i].ok
         /\ ~requests[j].ok) =>
            \A k \in DOMAIN server : server[k].domain # requests[j].domain

\* C16: with force_cleanup every delete is sent before any add; a run
\* without dry_run in which every request succeeded leaves the deduplicated
\* records of the active containers and the untouched non-container records;
\* a record whose add failed after its delete succeeded is missing at the end.
C16_ForceRecreatesActive ==
    force_cleanup =>
        /\ DeletesBeforeAdds
        /\ (~dry_run /\ AllSucceeded) => ActiveRecreated
        /\ dpc = "done" => FailedAddIsMissing

\* The same for the runs that found a stale record.
ForceRecreatesActiveWhenStale ==
    (force_cleanup /\ stale_records # << >>) =>
        /\ DeletesBeforeAdds
        /\ (~dry_run /\ AllSucceeded) => ActiveRecreated
        /\ dpc = "done" => FailedAddIsMissing

\* A forced run with a stale record lost an active record and returned True.
LostActiveRecord ==
    /\ force_cleanup
    /\ result = "True"
    /\ \E j \in Sent("add") : ~requests[j].ok
    /\ \E i \in Sent("delete") : requests[i].ok
    /\ ActivePairs(server) = {}
    /\ ActivePairs(server0) # {}

\* The last request sent was a listing that failed.
LastListingFailed ==
    /\ requests # << >>
    /\ requests[Len(requests)].op = "list"
    /\ ~requests[Len(requests)].ok

\* The delete loop is over.
DeletesDone == dpc \in {"add", "verify"} \/ (dpc = "done" /\ Sent("delete") # {})

\* C17: the run returns False only when its last request, the initial or
\* the verification listing, failed, and returns True otherwise, whatever
\* deletes and adds failed and however many stale records remain; a failed
\* delete or add does not end the run, and the delete loop sends a delete
\* for each record of its list whatever deletes failed.
C17_FalseOnlyOnListingFailure ==
    /\ [](result = "False" <=> (dpc = "done" /\ LastListingFailed))
    /\ [](dpc = "done" => result \in {"True", "False"})
    /\ [][(Len(requests') > Len(requests)
            /\ requests'[Len(requests')].op \in {"delete", "add"}) =>
                result' = "none" /\ dpc' \in {"delete", "add", "verify"}]_vars
    /\ [](DeletesDone =>
            Len(SentSeq("delete")) =
                Len(IF force_cleanup THEN container_dns_records ELSE stale_records))

C17_Witness ==
    /\ result = "True"
    /\ remaining_stale > 0
    /\ \E i \in Sent("delete") : \E j \in Sent("delete") : i < j /\ ~requests[i].ok
    /\ \E j \in Sent("add") : ~requests[j].ok

\* The initial listing failed.
FirstListingFailed == requests # << >> /\ ~requests[1].ok

\* C18: when the initial listing fails the run is over with False and that
\* listing is its only request: no delete and no add was sent and the server
\* holds the records it held, in dry-run, normal and force mode alike.
C18_ListingFailureReturnsFalse ==
    FirstListingFailed =>
        /\ dpc = "done"
        /\ result = "False"
        /\ Len(requests) = 1
        /\ Sent("delete") = {}
        /\ Sent("add") = {}
        /\ server = server0

C18_Witness ==
    /\ FirstListingFailed
    /\ result = "False"
    /\ force_cleanup
    /\ ~dry_run
    /\ docker_ok
    /\ active_containers = {<<"a">>}
    /\ \E k \in DOMAIN server : server[k].domain = <<"b", ".docker">>

====
